---- MODULE Spec2Model ----
(***************************************************************************)
(* Model of src/traffic.py: the setup and the control loop of main(), the   *)
(* camera callbacks made by make_camera_callback, the collision callback,  *)
(* the background image_saver thread and the cleanup phase in main's       *)
(* finally block.                                                          *)
(*                                                                         *)
(* Threads: the control thread (pc), the saver thread (wpc), and the       *)
(* simulator's callback threads (one atomic step per camera callback; in   *)
(* SpecRace the clock read and the store of line 93 are separate steps).   *)
(* The wall clock is the variable now.  An external call that the source   *)
(* guards with try/except and whose failure changes what the program does  *)
(* next has that failure as a nondeterministic input of its action.        *)
(* staged_walkers, walkers and walker_controllers are touched by the       *)
(* control thread alone, so the staging block and the trigger loop are one *)
(* step each.                                                              *)
(* Not modelled: the frame buffers front_image/third_image and the counter *)
(* _frame_counter (written by the callbacks, never read by any decision),  *)
(* the other vehicles, the HUD drawing, spawn_attempts and collisions       *)
(* (never read).                                                           *)
(***************************************************************************)
EXTENDS Integers, Sequences, FiniteSets, TLC

VARIABLES
    cam_save_every_n,   \* global CAM_SAVE_EVERY_N after main() applied --no-save
    no_walkers,         \* args.no_walkers
    original_settings,  \* TRUE iff world.get_settings() succeeded (else None)
    now,                \* time.time()
    last_frame_time,    \* global _last_frame_time
    save_queue,         \* queued (store_name, frame) tasks of save_queue
    unfinished_tasks,   \* save_queue.unfinished_tasks (put: +1, task_done: -1)
    stop_saver,         \* the threading.Event stop_saver
    wpc,                \* position of the image_saver thread
    pc,                 \* position of the control thread in main()
    running,            \* local running of main()
    snap,               \* frame id of the snapshot of the current tick, None if none
    telemetry,          \* the deque telemetry
    staged_walkers,     \* walkers staged, not yet triggered (their ids)
    walkers,            \* triggered walkers
    walker_controllers, \* controllers of triggered walkers
    alive,              \* actors alive in the simulator world
    spawned,            \* number of walkers the world has spawned so far
    world_settings,     \* "async" (as applied at startup) or "original"
    csv_status,         \* telemetry.csv: "none" (not opened), "written" or "failed"
    csv_rows,           \* the rows written to telemetry.csv
    \* history variables (observations for the properties, never read by the code)
    appendCalls,        \* ticks that read the ego state and reached line 327 (counted runs)
    enqueued,           \* number of save_queue.put calls so far
    processed,          \* number of tasks the saver took and marked done
    enqAtStop,          \* enqueued at the moment stop_saver.set() ran, None before
    stallReports,       \* number of watchdog stall reports
    cleanupEntries,     \* number of times the finally block was entered
    endedBy,            \* what ended the loop: "none" while it runs
    destroyAttempted,   \* actors the cleanup asked the simulator to destroy
    batchFailed,        \* whether apply_batch_sync raised
    restoreAttempted,   \* whether cleanup called apply_settings(original_settings)
    attachFailed,       \* walkers whose controller attachment failed
    destroyFailed,      \* walkers whose walker.destroy() raised
    delivered,          \* frames delivered in sequence (sequential-delivery runs)
    conversionRaised,   \* whether the conversion of one of those raised
    caughtErrors,       \* callback errors caught and logged inside the callback
    escapedErrors,      \* callback errors that left the callback
    lastStage,          \* outcome of the latest staging attempt (recorded runs)
    stagedAt,           \* frame id of the latest tick if it staged a walker, else None
    lastTrigger,        \* what the latest trigger loop met, per staged walker
    writeFailures,      \* number of save_to_disk calls that raised (counted runs)
    clock_read          \* per camera: time.time() read at line 93 and not yet
                        \* stored, None outside that window (stepwise callbacks)

config == <<cam_save_every_n, no_walkers, original_settings>>
queueVars == <<save_queue, unfinished_tasks, enqueued>>
saverVars == <<wpc, processed>>
loopVars == <<pc, running, snap>>
telemetryVars == <<telemetry, appendCalls>>
walkerVars == <<staged_walkers, walkers, walker_controllers, spawned,
                attachFailed, destroyFailed>>
cleanupVars == <<stop_saver, enqAtStop, world_settings, csv_status, csv_rows,
                 destroyAttempted, batchFailed, restoreAttempted>>
exitVars == <<stallReports, cleanupEntries, endedBy>>
scenarioVars == <<delivered, conversionRaised, caughtErrors, escapedErrors,
                  lastStage, stagedAt, lastTrigger, writeFailures, clock_read>>

vars == <<config, now, last_frame_time, queueVars, saverVars, loopVars,
          telemetryVars, walkerVars, alive, cleanupVars, exitVars,
          scenarioVars>>

None == -1

\* ---------------- Defaults / Config (traffic.py 38-49) ----------------
CAM_SAVE_EVERY_N == 60
MAX_CROSSERS == 2
JAYWALK_TRIGGER_DISTANCE == 12
NO_FRAME_TIMEOUT == 10
\* capacity of the telemetry deque; 20000 in the source, scaled down here
MAX_TELEMETRY_ROWS == 3

\* ---------------- bounds of the model ----------------
MaxTime == 12        \* the clock runs 0..MaxTime
MaxFrame == 180      \* sequential delivery hands out frames 0..MaxFrame
MaxTasks == 2        \* at most this many save_queue.put calls in a run
MaxAppends == 4      \* at most this many ticks reach the telemetry block
MaxSpawns == 3       \* at most this many walkers are spawned in a run
MaxKept == 1         \* at most this many destroy() calls of the fallback raise
MaxQueue == 2        \* uncounted puts keep the queue at this length at most
MaxErrors == 2       \* at most this many callback errors of a kind are counted

Stores == {"front", "third"}
\* frame numbers of the images delivered out of sequence: not sampled, sampled
SampleFrames == {CAM_SAVE_EVERY_N - 1, CAM_SAVE_EVERY_N}
\* snapshot frame ids the world hands out: on the cadence below the floor, on
\* the cadence above it, off the cadence
SnapFrames == {0, 200, 201}

\* ---------------- actors ----------------
Walker(k) == <<"walker", k>>
Ctrl(k) == <<"ctrl", k>>
Camera(s) == <<"camera", s>>
CollisionSensor == <<"sensor", "collision">>
Ego == <<"vehicle", "ego">>
\* the lists sensors and vehicles of main() once the loop is entered
sensors == <<CollisionSensor, Camera("front"), Camera("third")>>
vehicles == <<Ego>>

Range(s) == {s[i] : i \in 1..Len(s)}

\* ---------------- the state main() builds before its try block ----------------
\* main() 129-135 (flags), 142-144 (saver thread started), 176-185 (settings),
\* 187-192 (lists), 57 and 296 (_last_frame_time = time.time()), with the
\* control thread at p and the actors of world alive.
Boot(p, world) ==
    /\ cam_save_every_n \in {CAM_SAVE_EVERY_N, 0}
    /\ no_walkers \in BOOLEAN
    /\ original_settings \in BOOLEAN
    /\ now = 0
    /\ last_frame_time = 0
    /\ save_queue = <<>>
    /\ unfinished_tasks = 0
    /\ stop_saver = FALSE
    /\ wpc = "while"
    /\ pc = p
    /\ running = TRUE
    /\ snap = None
    /\ telemetry = <<>>
    /\ staged_walkers = <<>>
    /\ walkers = <<>>
    /\ walker_controllers = <<>>
    /\ alive = world
    /\ spawned = 0
    /\ world_settings = "async"
    /\ csv_status = "none"
    /\ csv_rows = <<>>
    /\ appendCalls = 0
    /\ enqueued = 0
    /\ processed = 0
    /\ enqAtStop = None
    /\ stallReports = 0
    /\ cleanupEntries = 0
    /\ endedBy = "none"
    /\ destroyAttempted = {}
    /\ batchFailed = FALSE
    /\ restoreAttempted = FALSE
    /\ attachFailed = {}
    /\ destroyFailed = {}
    /\ delivered = 0
    /\ conversionRaised = FALSE
    /\ caughtErrors = 0
    /\ escapedErrors = 0
    /\ lastStage = "none"
    /\ stagedAt = None
    /\ lastTrigger = <<>>
    /\ writeFailures = 0
    /\ clock_read = [s \in Stores |-> None]

\* the state when the control loop is entered: 213-255 (ego, collision sensor
\* and cameras spawned and listening), 288-296 (loop locals, watchdog baseline)
Init == Boot("loop", Range(sensors) \cup Range(vehicles))

\* ---------------- leaving the try block by a raise (422-428) ----------------
\* An exception (425) or a KeyboardInterrupt (422) raised at position p of the
\* try block is logged by its except clause and the finally block starts.
RaiseSwallowedInLoop(p) == IF p = "setup" THEN "flush" ELSE "loop"
AfterRaise(p) == "flush"

RaiseKinds == {"exception", "interrupt"}

\* ---------------- setup inside the try block (194-296) ----------------
\* ok: ego, sensors and cameras spawned and listening, the loop is entered;
\* no_ego: no blueprint (200) or no ego after six tries (211), RuntimeError;
\* no_camera: the camera blueprint or the front camera spawn raises (239-250).
\* csOk = FALSE is the collision sensor failing, which is only logged (236);
\* the loop is modelled as entered with the collision sensor.
SetupOutcomes == {"ok", "no_ego", "no_camera"}

Setup ==
    /\ pc = "setup"
    /\ \E outcome \in SetupOutcomes, csOk \in BOOLEAN :
        LET cs == IF csOk THEN {CollisionSensor} ELSE {} IN
        CASE outcome = "ok" ->
                /\ csOk
                /\ alive' = Range(vehicles) \cup Range(sensors)
                /\ last_frame_time' = now
                /\ pc' = "loop"
                /\ UNCHANGED exitVars
          [] outcome = "no_ego" ->
                /\ csOk
                /\ alive' = {}
                /\ pc' = AfterRaise(pc)
                /\ cleanupEntries' = cleanupEntries + 1
                /\ endedBy' = "setup"
                /\ UNCHANGED <<last_frame_time, stallReports>>
          [] outcome = "no_camera" ->
                /\ alive' = Range(vehicles) \cup cs
                /\ pc' = AfterRaise(pc)
                /\ cleanupEntries' = cleanupEntries + 1
                /\ endedBy' = "setup"
                /\ UNCHANGED <<last_frame_time, stallReports>>
    /\ UNCHANGED <<running, snap>>
    /\ UNCHANGED <<config, now, queueVars, saverVars, telemetryVars, walkerVars,
                   cleanupVars, scenarioVars>>

\* ---------------- the clock ----------------
\* d seconds pass
TimePasses(d) ==
    /\ now + d <= MaxTime
    /\ now' = now + d
    /\ UNCHANGED <<config, last_frame_time, queueVars, saverVars, loopVars,
                   telemetryVars, walkerVars, alive, cleanupVars, exitVars,
                   scenarioVars>>

\* one second passes
ClockTick == TimePasses(1)

\* a stretch longer than the watchdog threshold passes
LongSilence == TimePasses(NO_FRAME_TIMEOUT + 1)

\* ---------------- make_camera_callback (traffic.py 88-109) ----------------
\* line 103: the sampling predicate
SavesAllFrames(n, frame) == n > 0
ShouldSave(n, frame) == n > 0 /\ frame % n = 0

\* One invocation of callback(image) of the camera store_name, delivered by the
\* simulator while that camera is alive (no sensor is ever told to stop
\* listening; a camera stops with its destruction).  decodeOk = FALSE is
\* to_surface_from_image raising (95): the except at 107 logs it and the put at
\* 106 is not reached.  t is the value that line 93 stores in _last_frame_time.
callback_store(store_name, frame, decodeOk, t) ==
    /\ Camera(store_name) \in alive
    /\ last_frame_time' = t
    /\ IF decodeOk /\ ShouldSave(cam_save_every_n, frame)
       THEN /\ save_queue' = Append(save_queue, <<store_name, frame>>)
            /\ unfinished_tasks' = unfinished_tasks + 1
       ELSE UNCHANGED <<save_queue, unfinished_tasks>>
    /\ UNCHANGED <<config, now, saverVars, loopVars, telemetryVars, walkerVars,
                   alive, cleanupVars, exitVars>>

\* line 93 in one step: the clock is read and its value stored at once
callback_body(store_name, frame, decodeOk) ==
    callback_store(store_name, frame, decodeOk, now)

\* the same invocation with its put counted in enqueued
callback(store_name, frame, decodeOk) ==
    /\ callback_body(store_name, frame, decodeOk)
    /\ enqueued' = IF decodeOk /\ ShouldSave(cam_save_every_n, frame)
                   THEN enqueued + 1 ELSE enqueued

\* a camera delivers an image; at most MaxTasks images are put on the queue
CameraCallback ==
    \E store_name \in Stores, frame \in SampleFrames, decodeOk \in BOOLEAN :
        /\ (decodeOk /\ ShouldSave(cam_save_every_n, frame)) => enqueued < MaxTasks
        /\ callback(store_name, frame, decodeOk)
        /\ UNCHANGED scenarioVars

\* a camera delivers an image, its put not counted: any number of images are
\* put on the queue in a run, the queue never holding more than MaxQueue
UncountedCallback ==
    \E store_name \in Stores, frame \in SampleFrames, decodeOk \in BOOLEAN :
        /\ (decodeOk /\ ShouldSave(cam_save_every_n, frame))
              => Len(save_queue) < MaxQueue
        /\ callback_body(store_name, frame, decodeOk)
        /\ UNCHANGED enqueued
        /\ UNCHANGED scenarioVars

\* a camera delivers an image, a raise inside the callback counted: the try of
\* 92-108 spans the whole body, the except clause logs the error (108) and the
\* callback returns normally
LoggedCallback ==
    \E store_name \in Stores, frame \in SampleFrames, decodeOk \in BOOLEAN :
        /\ ~decodeOk => caughtErrors < MaxErrors
        /\ callback(store_name, frame, decodeOk)
        /\ caughtErrors' = IF decodeOk THEN caughtErrors ELSE caughtErrors + 1
        /\ UNCHANGED <<delivered, conversionRaised, escapedErrors, lastStage,
                       stagedAt, lastTrigger, writeFailures, clock_read>>

\* Line 93 step by step, each camera's callback running on a thread of its own:
\* time.time() is called and returns, and the global _last_frame_time is
\* assigned afterwards; nothing (no lock) keeps other threads from running in
\* between.
CallbackReadsClock ==
    \E store_name \in Stores :
        /\ Camera(store_name) \in alive
        /\ clock_read[store_name] = None
        /\ clock_read' = [clock_read EXCEPT ![store_name] = now]
        /\ UNCHANGED <<delivered, conversionRaised, caughtErrors, escapedErrors,
                       lastStage, stagedAt, lastTrigger, writeFailures>>
        /\ UNCHANGED <<config, now, last_frame_time, queueVars, saverVars,
                       loopVars, telemetryVars, walkerVars, alive, cleanupVars,
                       exitVars>>

\* the assignment of line 93 and the rest of the body (94-108)
CallbackWritesTime ==
    \E store_name \in Stores, frame \in SampleFrames, decodeOk \in BOOLEAN :
        /\ clock_read[store_name] # None
        /\ (decodeOk /\ ShouldSave(cam_save_every_n, frame)) => enqueued < MaxTasks
        /\ callback_store(store_name, frame, decodeOk, clock_read[store_name])
        /\ enqueued' = IF decodeOk /\ ShouldSave(cam_save_every_n, frame)
                       THEN enqueued + 1 ELSE enqueued
        /\ clock_read' = [clock_read EXCEPT ![store_name] = None]
        /\ UNCHANGED <<delivered, conversionRaised, caughtErrors, escapedErrors,
                       lastStage, stagedAt, lastTrigger, writeFailures>>

\* ---------------- on_collision (traffic.py 229-234) ----------------
\* One invocation of on_collision(event) by the simulator while the collision
\* sensor is alive.  eventOk = FALSE is a read of the event raising (230-231:
\* event.other_actor is None, so other.type_id raises AttributeError).  The
\* body has no try: the error leaves the callback.  The list collisions, which
\* nothing reads, is not modelled.
on_collision(eventOk) ==
    /\ CollisionSensor \in alive
    /\ escapedErrors' = IF eventOk THEN escapedErrors ELSE escapedErrors + 1
    /\ UNCHANGED <<delivered, conversionRaised, caughtErrors, lastStage,
                   stagedAt, lastTrigger, writeFailures, clock_read>>
    /\ UNCHANGED <<config, now, last_frame_time, queueVars, saverVars, loopVars,
                   telemetryVars, walkerVars, alive, cleanupVars, exitVars>>

CollisionCallback ==
    \E eventOk \in BOOLEAN :
        /\ ~eventOk => escapedErrors < MaxErrors
        /\ on_collision(eventOk)

\* the front camera delivers the frames 0, 1, 2, ... in sequence
SequentialFrame ==
    /\ delivered <= MaxFrame
    /\ \E decodeOk \in BOOLEAN :
        /\ callback("front", delivered, decodeOk)
        /\ conversionRaised' = (conversionRaised \/ ~decodeOk)
    /\ delivered' = delivered + 1
    /\ UNCHANGED <<caughtErrors, escapedErrors, lastStage, stagedAt, lastTrigger,
                   writeFailures, clock_read>>

\* ---------------- image_saver (traffic.py 63-79) ----------------
saverRest == <<config, now, last_frame_time, enqueued, loopVars, telemetryVars,
               walkerVars, alive, cleanupVars, exitVars>>
workerRest == <<saverRest, scenarioVars>>

\* line 65: while not stop_event.is_set()
SaverWhile ==
    /\ wpc = "while"
    /\ wpc' = IF stop_saver THEN "exit" ELSE "get"
    /\ UNCHANGED <<save_queue, unfinished_tasks, processed>>
    /\ UNCHANGED workerRest

\* lines 66-69: save_queue.get(timeout=0.5); queue.Empty -> continue
SaverGet ==
    /\ wpc = "get"
    /\ IF save_queue # <<>>
       THEN /\ save_queue' = Tail(save_queue)
            /\ wpc' = "save"
       ELSE /\ save_queue' = save_queue
            /\ wpc' = "while"
    /\ UNCHANGED <<unfinished_tasks, processed>>
    /\ UNCHANGED workerRest

\* lines 70-79: save_to_disk, writeOk = FALSE being its raise, which is only
\* logged (73-74); task_done in the finally clause (75-79); back to the while
\* test either way
saver_save(writeOk) ==
    /\ wpc = "save"
    /\ unfinished_tasks' = unfinished_tasks - 1
    /\ wpc' = "while"
    /\ UNCHANGED save_queue
    /\ UNCHANGED saverRest

\* the same step, counted in processed
SaverSave ==
    \E writeOk \in BOOLEAN :
        /\ saver_save(writeOk)
        /\ processed' = processed + 1
        /\ UNCHANGED scenarioVars

\* the same step, not counted
UncountedSave ==
    \E writeOk \in BOOLEAN :
        /\ saver_save(writeOk)
        /\ UNCHANGED processed
        /\ UNCHANGED scenarioVars

\* the same step, counted in processed, its raises counted in writeFailures
LoggedSave ==
    \E writeOk \in BOOLEAN :
        /\ ~writeOk => writeFailures < MaxErrors
        /\ saver_save(writeOk)
        /\ processed' = processed + 1
        /\ writeFailures' = IF writeOk THEN writeFailures ELSE writeFailures + 1
        /\ UNCHANGED <<delivered, conversionRaised, caughtErrors, escapedErrors,
                       lastStage, stagedAt, lastTrigger, clock_read>>

\* ---------------- the control loop of main() (traffic.py 298-420) ----------------
\* lines 311-313: without a snapshot, continue; with one, on to the watchdog
NoSkipOnMissingSnapshot(s) == "watchdog"
AfterPoll(s) == IF s = None THEN "loop" ELSE "watchdog"

\* line 298: while running
LoopIgnoresQuit(r) == TRUE
LoopContinues(r) == r

\* lines 298-313: the while test, the event queue, the snapshot poll.  quit is a
\* QUIT/ESC event in the queue; s = None is get_snapshot() raising (306-308) or
\* returning None: the tick is skipped (311-313).
LoopIter ==
    /\ pc = "loop"
    /\ LoopContinues(running)
    /\ appendCalls < MaxAppends
    /\ \E quit \in BOOLEAN, s \in SnapFrames \cup {None} :
        /\ running' = ~quit
        /\ snap' = s
        /\ pc' = AfterPoll(s)
    /\ UNCHANGED <<config, now, last_frame_time, queueVars, saverVars,
                   telemetryVars, walkerVars, alive, cleanupVars, exitVars,
                   scenarioVars>>

\* line 298 with running = False: the loop ends, the finally block starts (428)
LoopExit ==
    /\ pc = "loop"
    /\ ~LoopContinues(running)
    /\ pc' = "flush"
    /\ cleanupEntries' = cleanupEntries + 1
    /\ endedBy' = "quit"
    /\ UNCHANGED <<running, snap, stallReports>>
    /\ UNCHANGED <<config, now, last_frame_time, queueVars, saverVars,
                   telemetryVars, walkerVars, alive, cleanupVars, scenarioVars>>

\* lines 422-426: a KeyboardInterrupt, which may arrive at any point of a tick,
\* or an exception raised outside the inner try blocks (299, 401-420), ends the
\* loop
Raise(kind) ==
    /\ pc \in {"loop", "watchdog", "telemetry", "stage", "trigger", "render"}
    /\ pc' = AfterRaise(pc)
    /\ cleanupEntries' = cleanupEntries + 1
    /\ endedBy' = kind
    /\ UNCHANGED <<running, snap, stallReports>>
    /\ UNCHANGED <<config, now, last_frame_time, queueVars, saverVars,
                   telemetryVars, walkerVars, alive, cleanupVars, scenarioVars>>

LoopRaises == \E kind \in RaiseKinds : Raise(kind)

\* line 316: time.time() - _last_frame_time > NO_FRAME_TIMEOUT
StalledAtThreshold(t, last) == t - last >= NO_FRAME_TIMEOUT
NeverStalled(t, last) == FALSE
Stalled(t, last) == t - last > NO_FRAME_TIMEOUT

\* lines 315-318: the watchdog; on a stall the error is logged and break leaves
\* the loop for the finally block
\* line 318: break on a stall, else on to line 320
StallOnlyLogged(stalled) == "telemetry"
AfterWatchdog(stalled) == IF stalled THEN "flush" ELSE "telemetry"

Watchdog ==
    /\ pc = "watchdog"
    /\ pc' = AfterWatchdog(Stalled(now, last_frame_time))
    /\ IF Stalled(now, last_frame_time)
       THEN /\ stallReports' = stallReports + 1
            /\ cleanupEntries' = cleanupEntries + 1
            /\ endedBy' = "stall"
       ELSE UNCHANGED <<stallReports, cleanupEntries, endedBy>>
    /\ UNCHANGED <<running, snap>>
    /\ UNCHANGED <<config, now, last_frame_time, queueVars, saverVars,
                   telemetryVars, walkerVars, alive, cleanupVars, scenarioVars>>

\* deque(maxlen=cap).append: the oldest entry is dropped when the deque is full
deque_append(d, rec, cap) ==
    IF Len(d) < cap THEN Append(d, rec) ELSE Append(Tail(d), rec)

\* line 327 assigns to telemetry.append.  telemetry is a collections.deque
\* (192): its instances have no __dict__ and 'append' is a read-only attribute,
\* so the assignment raises AttributeError on every execution.
DequeAppendAssignable == FALSE

\* the k-th record the loop builds (328-330), for the snapshot frame f
TelemetryRecord(k, f) == <<k, f>>

\* lines 320-332: egoOk = FALSE is one of the ego reads (322-325) raising.  With
\* the ego state read, line 327 runs; only if it does not raise does 328 append.
\* Every exception is swallowed by "except Exception: pass" (331-332).
telemetry_block(egoOk) ==
    /\ pc = "telemetry"
    /\ telemetry' = IF egoOk /\ DequeAppendAssignable
                    THEN deque_append(telemetry,
                                      TelemetryRecord(appendCalls + 1, snap),
                                      MAX_TELEMETRY_ROWS)
                    ELSE telemetry
    /\ pc' = "stage"
    /\ UNCHANGED <<running, snap>>
    /\ UNCHANGED <<config, now, last_frame_time, queueVars, saverVars, walkerVars,
                   alive, cleanupVars, exitVars, scenarioVars>>

Telemetry ==
    \E egoOk \in BOOLEAN : telemetry_block(egoOk) /\ UNCHANGED appendCalls

\* the same step, counted in appendCalls
TelemetryCounted ==
    \E egoOk \in BOOLEAN :
        /\ telemetry_block(egoOk)
        /\ appendCalls' = IF egoOk THEN appendCalls + 1 ELSE appendCalls

\* ---------------- staging and triggering of jaywalkers (334-398) ----------------
\* line 335: the staging condition
StageDueNoLimit(noWalkers, f, nWalkers, nStaged) ==
    (~noWalkers) /\ f > 40 /\ f % 200 = 0
StageDueNoFloor(noWalkers, f, nWalkers, nStaged) ==
    (~noWalkers) /\ f % 200 = 0 /\ nWalkers + nStaged < MAX_CROSSERS
StageDue(noWalkers, f, nWalkers, nStaged) ==
    (~noWalkers) /\ f > 40 /\ f % 200 = 0 /\ nWalkers + nStaged < MAX_CROSSERS

\* lines 361-368: the world after the controller could not be attached to
\* walker k: walker.destroy() is called, and a failure of it is swallowed
WorldKeepsWalker(world, k, destroyOk) == world \cup {Walker(k)}
WorldAfterAttachFailure(world, k, destroyOk) ==
    IF destroyOk THEN world \ {Walker(k)} ELSE world \cup {Walker(k)}

\* what one staging attempt can come to: an exception before any actor exists
\* (373), no waypoint ahead (339), no projected spawn waypoint (355),
\* try_spawn_actor returning None (360), spawn_actor of the controller raising
\* (363), or walker and controller created and staged (371)
StageOutcomes == {"error", "no_future", "no_spawn_wp", "no_walker",
                  "attach_fail", "staged"}

\* line 360: try_spawn_actor returned a walker
SpawnsWithoutPoint(outcome) == outcome \in {"no_spawn_wp", "attach_fail", "staged"}
WalkerSpawned(outcome) == outcome \in {"attach_fail", "staged"}

stageRest == <<config, now, last_frame_time, queueVars, saverVars, running, snap,
               telemetryVars, walkers, walker_controllers, cleanupVars,
               exitVars>>

\* lines 336-374: one staging attempt, made when the condition of 335 holds.
\* Without a walker nothing was created and the tick goes on to the trigger
\* loop; with the walker and its controller the tuple is staged (371); with the
\* walker but no controller the walker is destroyed and continue (368) starts
\* the next tick.
stage_attempt(outcome, destroyOk) ==
    /\ pc = "stage"
    /\ StageDue(no_walkers, snap, Len(walkers), Len(staged_walkers))
    /\ LET k == spawned + 1 IN
       IF WalkerSpawned(outcome)
       THEN /\ spawned < MaxSpawns
            /\ spawned' = k
            /\ IF outcome = "staged"
               THEN /\ destroyOk
                    /\ alive' = alive \cup {Walker(k), Ctrl(k)}
                    /\ staged_walkers' = Append(staged_walkers, k)
                    /\ pc' = "trigger"
                    /\ UNCHANGED <<attachFailed, destroyFailed>>
               ELSE /\ alive' = WorldAfterAttachFailure(alive, k, destroyOk)
                    /\ attachFailed' = attachFailed \cup {k}
                    /\ destroyFailed' = IF destroyOk THEN destroyFailed
                                        ELSE destroyFailed \cup {k}
                    /\ pc' = "loop"
                    /\ UNCHANGED staged_walkers
       ELSE /\ destroyOk
            /\ pc' = "trigger"
            /\ UNCHANGED <<spawned, alive, staged_walkers, attachFailed,
                           destroyFailed>>
    /\ UNCHANGED stageRest

\* line 335 false: no staging on this tick
stage_skip ==
    /\ pc = "stage"
    /\ ~StageDue(no_walkers, snap, Len(walkers), Len(staged_walkers))
    /\ pc' = "trigger"
    /\ UNCHANGED <<spawned, alive, staged_walkers, attachFailed, destroyFailed>>
    /\ UNCHANGED stageRest

\* lines 334-374
Stage ==
    /\ \/ \E outcome \in StageOutcomes, destroyOk \in BOOLEAN :
            stage_attempt(outcome, destroyOk)
       \/ stage_skip
    /\ UNCHANGED scenarioVars

\* the same step with the outcome of the attempt recorded in lastStage, and in
\* stagedAt the frame id of this tick if it staged a walker
StageRecorded ==
    /\ \/ \E outcome \in StageOutcomes, destroyOk \in BOOLEAN :
            /\ stage_attempt(outcome, destroyOk)
            /\ lastStage' = outcome
            /\ stagedAt' = IF outcome = "staged" THEN snap ELSE None
       \/ (stage_skip /\ lastStage' = lastStage /\ stagedAt' = None)
    /\ UNCHANGED <<delivered, conversionRaised, caughtErrors, escapedErrors,
                   lastTrigger, writeFailures, clock_read>>

\* the entries of seq whose outcome in out is tag, in order
RECURSIVE Pick(_, _, _)
Pick(seq, out, tag) ==
    IF seq = <<>> THEN <<>>
    ELSE (IF Head(out) = tag THEN <<Head(seq)>> ELSE <<>>)
         \o Pick(Tail(seq), Tail(out), tag)

\* line 380: what the evaluation of one staged walker meets: the distance of
\* the walker to the ego, or a raise of get_location / distance (392), after
\* which the walker is destroyed if alive (394-395) or that destroy raises too
\* (396-397)
Distances == {JAYWALK_TRIGGER_DISTANCE - 1, JAYWALK_TRIGGER_DISTANCE,
              JAYWALK_TRIGGER_DISTANCE + 1}
TriggerInputs ==
    [raised : {"no"}, dist : Distances]
        \cup [raised : {"destroyed", "kept"}, dist : {None}]

\* line 380: distance(ego_location) < trig
NearOrAt(d, trig) == d <= trig
Near(d, trig) == d < trig

\* per staged walker: within the trigger distance (380), not within it (390),
\* or an exception (392) with the walker destroyed or not
TriggerOutcomes == {"near", "far", "error_destroyed", "error_kept"}

\* lines 379-397: the branch taken for one staged walker, staged with the
\* trigger distance trig (371)
TriggerOutcome(in, trig) ==
    IF in.raised = "destroyed" THEN "error_destroyed"
    ELSE IF in.raised = "kept" THEN "error_kept"
    ELSE IF Near(in.dist, trig) THEN "near"
    ELSE "far"

\* lines 387-388: walkers.append / walker_controllers.append
TriggeredRetired(list, moved) == moved
AfterTrigger(list, moved) == list \o moved

triggerRest == <<config, now, last_frame_time, queueVars, saverVars,
                 telemetryVars, cleanupVars, exitVars>>

\* lines 376-398: the whole for loop and the assignment staged_walkers =
\* remaining.  Every tuple was staged with JAYWALK_TRIGGER_DISTANCE (371).  A
\* raise of the controller commands (382-384) is logged at 386 and the walker
\* is appended all the same.
trigger_loop(ins) ==
    /\ pc = "trigger"
    /\ LET out == [i \in 1..Len(staged_walkers) |->
                       TriggerOutcome(ins[i], JAYWALK_TRIGGER_DISTANCE)]
       IN
        /\ walkers' = AfterTrigger(walkers, Pick(staged_walkers, out, "near"))
        /\ walker_controllers' =
               AfterTrigger(walker_controllers, Pick(staged_walkers, out, "near"))
        /\ staged_walkers' = Pick(staged_walkers, out, "far")
        /\ alive' = alive \ {Walker(k) :
                              k \in Range(Pick(staged_walkers, out, "error_destroyed"))}
        /\ destroyFailed' = destroyFailed
                            \cup Range(Pick(staged_walkers, out, "error_kept"))
    /\ pc' = "render"
    /\ UNCHANGED <<spawned, attachFailed, running, snap>>
    /\ UNCHANGED triggerRest

Trigger ==
    \E ins \in [1..Len(staged_walkers) -> TriggerInputs] :
        /\ trigger_loop(ins)
        /\ UNCHANGED scenarioVars

\* the same step; lastTrigger records, per walker evaluated, what the
\* evaluation met and whether ctrl.start() was called on its controller (382)
TriggerRecorded ==
    /\ \E ins \in [1..Len(staged_walkers) -> TriggerInputs] :
        /\ trigger_loop(ins)
        /\ lastTrigger' =
               [i \in 1..Len(staged_walkers) |->
                   [walker |-> staged_walkers[i],
                    raised |-> ins[i].raised,
                    dist |-> ins[i].dist,
                    started |-> (TriggerOutcome(ins[i], JAYWALK_TRIGGER_DISTANCE)
                                     = "near")]]
    /\ UNCHANGED <<delivered, conversionRaised, caughtErrors, escapedErrors,
                   lastStage, stagedAt, writeFailures, clock_read>>

\* lines 400-420: draw, flip, clock.tick(SIM_FPS); back to the while test
Render ==
    /\ pc = "render"
    /\ pc' = "loop"
    /\ UNCHANGED <<running, snap>>
    /\ UNCHANGED <<config, now, last_frame_time, queueVars, saverVars,
                   telemetryVars, walkerVars, alive, cleanupVars, exitVars,
                   scenarioVars>>

\* ---------------- cleanup: the finally block of main() (428-484) ----------------
cleanupRest == <<config, now, last_frame_time, queueVars, saverVars, running, snap,
                 telemetryVars, walkerVars, exitVars, scenarioVars>>

\* lines 431-440: telemetry.csv is written only if the deque is not empty;
\* writeOk = FALSE is open/write raising, which is logged (440)
FlushTelemetry ==
    /\ pc = "flush"
    /\ \E writeOk \in BOOLEAN :
        IF telemetry = <<>>
        THEN UNCHANGED <<csv_status, csv_rows>>
        ELSE /\ csv_status' = IF writeOk THEN "written" ELSE "failed"
             /\ csv_rows' = IF writeOk THEN telemetry ELSE csv_rows
    /\ pc' = "queue_join"
    /\ UNCHANGED <<stop_saver, alive, world_settings, enqAtStop,
                   destroyAttempted, batchFailed, restoreAttempted>>
    /\ UNCHANGED cleanupRest

\* line 444: save_queue.join() returns when unfinished_tasks is 0
QueueJoin ==
    /\ pc = "queue_join"
    /\ unfinished_tasks = 0
    /\ pc' = "stop"
    /\ UNCHANGED <<stop_saver, alive, world_settings, csv_status, csv_rows,
                   enqAtStop, destroyAttempted, batchFailed, restoreAttempted>>
    /\ UNCHANGED cleanupRest

\* line 447: stop_saver.set()
StopSaver ==
    /\ pc = "stop"
    /\ stop_saver' = TRUE
    /\ enqAtStop' = enqueued
    /\ pc' = "thread_join"
    /\ UNCHANGED <<alive, world_settings, csv_status, csv_rows,
                   destroyAttempted, batchFailed, restoreAttempted>>
    /\ UNCHANGED cleanupRest

\* line 448: saver_thread.join(timeout=1.0) returns when the thread has ended
\* or after one second
ThreadJoin ==
    /\ pc = "thread_join"
    /\ pc' = "destroy"
    /\ UNCHANGED <<stop_saver, alive, world_settings, csv_status, csv_rows,
                   enqAtStop, destroyAttempted, batchFailed, restoreAttempted>>
    /\ UNCHANGED cleanupRest

\* line 453/469: sensors + walker_controllers + walkers + vehicles
TrackedActors ==
    Range(sensors) \cup {Ctrl(k) : k \in Range(walker_controllers)}
                   \cup {Walker(k) : k \in Range(walkers)} \cup Range(vehicles)

\* lines 469-474: the actors the per-actor fallback calls destroy() on.  Each
\* call sits in its own try, so a destroy() that raises (the actors of kept)
\* does not end the loop.
FallbackEndsAtFailure(all_ids, kept) == IF kept = {} THEN all_ids ELSE kept
FallbackTargets(all_ids, kept) == all_ids

\* lines 450-474: the ids of the tracked actors that are alive go into one
\* batch (453-465); if apply_batch_sync raises, each tracked actor that is
\* alive is destroyed on its own, and kept is the set of those whose destroy()
\* raised
DestroyActors ==
    /\ pc = "destroy"
    /\ LET all_ids == TrackedActors \cap alive IN
       IF all_ids # {}
       THEN \E batchOk \in BOOLEAN, kept \in SUBSET all_ids :
            LET asked == IF batchOk THEN all_ids
                         ELSE FallbackTargets(all_ids, kept) IN
            /\ batchOk => kept = {}
            /\ Cardinality(kept) <= MaxKept
            /\ alive' = (alive \ asked) \cup kept
            /\ destroyAttempted' = asked
            /\ batchFailed' = ~batchOk
       ELSE UNCHANGED <<alive, destroyAttempted, batchFailed>>
    /\ pc' = "restore"
    /\ UNCHANGED <<stop_saver, world_settings, csv_status, csv_rows, enqAtStop,
                   restoreAttempted>>
    /\ UNCHANGED cleanupRest

\* lines 476-484: the original settings are applied if they were captured;
\* applyOk = FALSE is apply_settings raising (480); then pygame.quit()
RestoreSettings ==
    /\ pc = "restore"
    /\ \E applyOk \in BOOLEAN :
        world_settings' = IF original_settings /\ applyOk THEN "original"
                          ELSE world_settings
    /\ restoreAttempted' = original_settings
    /\ pc' = "done"
    /\ UNCHANGED <<stop_saver, alive, csv_status, csv_rows, enqAtStop,
                   destroyAttempted, batchFailed>>
    /\ UNCHANGED cleanupRest

\* ---------------- the program ----------------
\* main() has returned at pc = "done": the process ends, and with it the daemon
\* saver thread (143) and the callbacks.
Running == pc # "done"

\* the control thread: the loop, then the finally block
Control(TelemetryStep, StageStep, TriggerStep) ==
    \/ LoopIter
    \/ LoopExit
    \/ Watchdog
    \/ TelemetryStep
    \/ StageStep
    \/ TriggerStep
    \/ Render
    \/ FlushTelemetry
    \/ QueueJoin
    \/ StopSaver
    \/ ThreadJoin
    \/ DestroyActors
    \/ RestoreSettings

\* the saver thread
Saver ==
    \/ (Running /\ SaverWhile)
    \/ (Running /\ SaverGet)
    \/ (Running /\ SaverSave)

\* the saver thread, its tasks not counted
UncountedSaver ==
    \/ (Running /\ SaverWhile)
    \/ (Running /\ SaverGet)
    \/ (Running /\ UncountedSave)

\* the saver thread, the raises of save_to_disk counted
LoggedSaver ==
    \/ (Running /\ SaverWhile)
    \/ (Running /\ SaverGet)
    \/ (Running /\ LoggedSave)

\* The program is checked per configuration of its command line.

\* Saving on, run with --no-walkers.  A silence longer than the watchdog
\* threshold may fall between any two steps.
InitPersist == Init /\ cam_save_every_n = CAM_SAVE_EVERY_N /\ no_walkers

NextPersist ==
    \/ (Running /\ LongSilence)
    \/ (Running /\ CameraCallback)
    \/ Saver
    \/ Control(Telemetry, Stage, Trigger)

SpecPersist == InitPersist /\ [][NextPersist]_vars

\* The same configuration, the failed writes of the saver thread counted.
NextWrites ==
    \/ (Running /\ LongSilence)
    \/ (Running /\ CameraCallback)
    \/ LoggedSaver
    \/ Control(Telemetry, Stage, Trigger)

SpecWrites == InitPersist /\ [][NextWrites]_vars

\* Walkers on, run with --no-save: nothing is ever queued, and the saver
\* thread, which only polls its empty queue, is left out.
InitWalkers == Init /\ cam_save_every_n = 0 /\ ~no_walkers

NextWalkers ==
    \/ (Running /\ LongSilence)
    \/ (Running /\ CameraCallback)
    \/ Control(Telemetry, Stage, Trigger)

SpecWalkers == InitWalkers /\ [][NextWalkers]_vars

\* Run with --no-save and --no-walkers, the clock in seconds; the saver thread
\* is left out as above.
InitQuiet == Init /\ cam_save_every_n = 0 /\ no_walkers

NextWatchdog ==
    \/ (Running /\ ClockTick)
    \/ (Running /\ CameraCallback)
    \/ Control(Telemetry, Stage, Trigger)

SpecWatchdog == InitQuiet /\ [][NextWatchdog]_vars

\* The same configuration, the callbacks of the two cameras taken step by step.
NextRace ==
    \/ (Running /\ ClockTick)
    \/ (Running /\ CallbackReadsClock)
    \/ (Running /\ CallbackWritesTime)
    \/ Control(Telemetry, Stage, Trigger)

SpecRace == InitQuiet /\ [][NextRace]_vars

\* The same configuration with the coarse clock, the ticks that reach the
\* telemetry append counted, at most MaxAppends of them.
NextTelemetry ==
    \/ (Running /\ LongSilence)
    \/ (Running /\ CameraCallback)
    \/ Control(TelemetryCounted, Stage, Trigger)

SpecTelemetry == InitQuiet /\ [][NextTelemetry]_vars

\* Saving on, run with --no-walkers, the cameras delivering for as long as they
\* are alive.  The control thread and the saver thread each keep running: a
\* step of theirs that stays possible is eventually taken.  Nothing is assumed
\* about how fast the cameras deliver.
NextDrain ==
    \/ (Running /\ LongSilence)
    \/ (Running /\ UncountedCallback)
    \/ UncountedSaver
    \/ Control(Telemetry, Stage, Trigger)

SpecDrain ==
    /\ InitPersist
    /\ [][NextDrain]_vars
    /\ WF_vars(Control(Telemetry, Stage, Trigger))
    /\ WF_vars(UncountedSaver)

\* Run with --no-save from the start of the try block: the setup may fail, and
\* a tick may be cut short by an exception or a KeyboardInterrupt; the settings
\* were captured.  The camera callbacks, which do not move the control thread,
\* are left out.
InitEndings ==
    /\ Boot("setup", {})
    /\ cam_save_every_n = 0
    /\ ~no_walkers
    /\ original_settings

NextEndings ==
    \/ Setup
    \/ (Running /\ LongSilence)
    \/ Control(Telemetry, Stage, Trigger)
    \/ LoopRaises

SpecEndings == InitEndings /\ [][NextEndings]_vars

\* Run with --no-save and --no-walkers, the errors raised inside the sensor
\* callbacks counted.
NextCallbacks ==
    \/ (Running /\ LongSilence)
    \/ (Running /\ LoggedCallback)
    \/ (Running /\ CollisionCallback)
    \/ Control(Telemetry, Stage, Trigger)

SpecCallbacks == InitQuiet /\ [][NextCallbacks]_vars

\* Run with --no-save, with or without --no-walkers, the outcome of each
\* staging attempt recorded.  The clock and the callbacks, which the staging
\* and the trigger loop do not read, are left out.
InitStaging == Init /\ cam_save_every_n = 0

NextStaging == Control(Telemetry, StageRecorded, Trigger)

SpecStaging == InitStaging /\ [][NextStaging]_vars

\* Walkers on, run with --no-save, the clock standing still: the trigger loop
\* with what each evaluation met recorded.
NextTrigger == Control(Telemetry, Stage, TriggerRecorded)

SpecTrigger == InitStaging /\ [][NextTrigger]_vars

\* Walkers on or off, run with --no-save, the clock standing still: the control
\* thread alone.  It is the main thread of the process and none of its steps
\* waits for another thread in this configuration (the queue stays empty), so
\* it always takes its next step.
NextQuit == Control(Telemetry, Stage, Trigger)

SpecQuit == InitStaging /\ [][NextQuit]_vars /\ WF_vars(NextQuit)

\* The front camera alone, delivering its frames in sequence.
NextSampling == SequentialFrame

SpecSampling == Init /\ [][NextSampling]_vars

\* ======================= properties =======================
LoopPcs == {"loop", "watchdog", "telemetry", "stage", "trigger", "render"}
CleanupPcs == {"flush", "queue_join", "stop", "thread_join", "destroy", "restore",
               "done"}

\* the tasks the sampling rule calls for once the front camera has delivered
\* the frames 0..d-1: one per frame number that is a multiple of n, in order
SampledTasks(n, d) ==
    IF n > 0 /\ d > 0
    THEN [i \in 1..((d - 1) \div n + 1) |-> <<"front", (i - 1) * n>>]
    ELSE <<>>

C2_RingKeepsLatest ==
    /\ Len(telemetry) <= MAX_TELEMETRY_ROWS
    /\ appendCalls = MAX_TELEMETRY_ROWS + 1
          => /\ Len(telemetry) = MAX_TELEMETRY_ROWS
             /\ \A i \in 1..MAX_TELEMETRY_ROWS : telemetry[i][1] = i + 1

\* C3 as claimed: with capacity 3 and four records built by the control loop,
\* the flush at shutdown, unless writing the file itself failed, has written
\* exactly the records 2, 3, 4 in that order.
C3_FlushWritesRing ==
    (/\ pc \in CleanupPcs \ {"flush"}
     /\ MAX_TELEMETRY_ROWS = 3
     /\ appendCalls = 4
     /\ csv_status # "failed")
        => /\ csv_status = "written"
           /\ Len(csv_rows) = 3
           /\ \A i \in 1..3 : csv_rows[i][1] = i + 1

\* C4: the watchdog check made at time now reports stalled (the loop is left
\* for cleanup and the stall is logged) iff now minus the last frame time is
\* strictly greater than NO_FRAME_TIMEOUT, and passes the tick on otherwise; in
\* particular last frame at 0: a check at 11 reports stalled, a check at 9 not.
C4_WatchdogVerdict ==
    [][pc = "watchdog" /\ pc' # "watchdog" =>
          /\ (pc' = "flush" /\ stallReports' = stallReports + 1)
                <=> (now - last_frame_time > NO_FRAME_TIMEOUT)
          /\ (pc' = "telemetry" /\ stallReports' = stallReports)
                <=> (now - last_frame_time <= NO_FRAME_TIMEOUT)
          /\ (last_frame_time = 0 /\ now = 11) => pc' = "flush"
          /\ (last_frame_time = 0 /\ now = 9) => pc' = "telemetry"]_vars

C4_Witness ==
    /\ pc = "flush"
    /\ stallReports = 1
    /\ last_frame_time = 0
    /\ now = 11

\* C5 as claimed: a control-loop tick that starts when no frame has arrived for
\* longer than the threshold, with no quit requested, goes to the watchdog
\* check (which then reports the stall).
C5_Original ==
    [][(/\ pc = "loop" /\ running
        /\ now - last_frame_time > NO_FRAME_TIMEOUT
        /\ loopVars' # loopVars
        /\ running')
          => pc' = "watchdog"]_vars

\* C5, amended: every tick that obtains a snapshot goes to the watchdog check;
\* the check made when no frame has arrived for longer than the threshold
\* reports the stall and ends the loop; a check made when the last frame is no
\* older than the threshold passes; there is at most one stall report in a
\* run, after it the control thread is in cleanup, and cleanup never returns
\* to the loop.
C5_StallEndsLoop ==
    /\ [][(pc = "loop" /\ running /\ loopVars' # loopVars /\ snap' # None)
             => pc' = "watchdog"]_vars
    /\ [][(pc = "watchdog" /\ pc' # pc)
             => IF now - last_frame_time > NO_FRAME_TIMEOUT
                THEN pc' = "flush" /\ stallReports' = 1
                ELSE pc' = "telemetry" /\ stallReports' = 0]_vars
    /\ [][(pc \in CleanupPcs) => (pc' \in CleanupPcs)]_vars
    /\ [](stallReports <= 1 /\ (stallReports = 1 => pc \in CleanupPcs))

C5_Witness ==
    /\ stallReports = 1
    /\ pc = "queue_join"
    /\ now - last_frame_time > NO_FRAME_TIMEOUT

\* C6 as claimed: when the saver thread has ended, every task that was put on
\* the queue before stop_saver.set() has been taken, written (or its write
\* failure logged) and marked done.
C6_DrainedAtExit == wpc = "exit" => processed >= enqAtStop

C8_AtMostMaxCrossers == Len(staged_walkers) + Len(walkers) <= MAX_CROSSERS

\* staging is due by the frame id and refused because MAX_CROSSERS are out
C8_Witness ==
    /\ pc = "stage"
    /\ snap = 200
    /\ Len(staged_walkers) + Len(walkers) = MAX_CROSSERS
    /\ Len(staged_walkers) = 1

\* C9 as claimed: once the control thread waits for the queue to drain, no
\* camera callback runs any more (none stamps the frame time, none enqueues);
\* the queue is drained when the actors are destroyed; and the world settings
\* are restored only after the destroy step.
C9_CleanupOrder ==
    /\ [][(pc \in CleanupPcs \ {"flush"})
             => (last_frame_time' = last_frame_time /\ enqueued' = enqueued)]_vars
    /\ [][(pc = "destroy" /\ pc' # pc) => unfinished_tasks = 0]_vars
    /\ [][(world_settings' # world_settings) => pc = "restore"]_vars

\* C10 as claimed: once the shutdown signal is set the queue takes no further
\* task, and none is added after the saver thread has ended.
C10_NoTaskAfterClose ==
    /\ [][stop_saver => enqueued' = enqueued]_vars
    /\ [][(wpc = "exit") => (Len(save_queue') <= Len(save_queue))]_vars

\* C11: cleanup is best-effort.  The telemetry flush, whatever its outcome, is
\* followed by the rest of the teardown; the destroy step asks the simulator to
\* destroy every tracked actor that is alive, all of them also when the batch
\* raised and when destroy() of one of them raised; and the step after it
\* calls apply_settings with the original settings exactly when they were
\* captured, whatever failed before.
C11_BestEffortCleanup ==
    /\ [][(pc = "flush" /\ pc' # pc) => pc' = "queue_join"]_vars
    /\ [][(pc = "destroy" /\ pc' # pc)
             => /\ pc' = "restore"
                /\ destroyAttempted' = TrackedActors \cap alive
                /\ alive' \cap TrackedActors \subseteq destroyAttempted']_vars
    /\ [][(pc = "restore" /\ pc' # pc)
             => /\ pc' = "done"
                /\ restoreAttempted' = original_settings]_vars
    /\ [](pc = "done" => (original_settings <=> restoreAttempted))

\* the batch raised, destroy() of one tracked actor raised too, the others
\* (a triggered walker and its controller among them) were still asked to go
\* and are gone, and the settings were restored
C11_Witness ==
    /\ pc = "done"
    /\ batchFailed
    /\ \E a \in destroyAttempted : a \in alive
    /\ \E k \in Range(walkers) :
          /\ {Walker(k), Ctrl(k)} \subseteq destroyAttempted
          /\ Ctrl(k) \notin alive
    /\ Range(sensors) \cup Range(vehicles) \subseteq destroyAttempted
    /\ restoreAttempted
    /\ world_settings = "original"

\* C12 as claimed: once the control thread is in cleanup, cleanup completes:
\* the wait for the queue to drain (save_queue.join()) ends, also while camera
\* callbacks keep putting tasks on the queue.
C12_CleanupCompletes == (pc \in CleanupPcs) ~> (pc = "done")

\* C13: whatever ends the try block (quit, watchdog stall, KeyboardInterrupt,
\* an exception in the loop or in the setup), the cleanup phase is entered
\* exactly once: the number of entries is 1 from the moment the control thread
\* is in cleanup and 0 before, every way out of the setup or the loop other
\* than into the loop leads to the first cleanup step, cleanup never returns
\* to the loop, and after cleanup has started no tick work is done (no
\* snapshot taken, no record appended, no walker staged or triggered).
C13_SingleCleanup ==
    /\ [](cleanupEntries = IF pc \in CleanupPcs THEN 1 ELSE 0)
    /\ []((endedBy # "none") <=> (pc \in CleanupPcs))
    /\ [][(pc \notin CleanupPcs /\ pc' \notin LoopPcs \cup {"setup"})
             => pc' = "flush"]_vars
    /\ [][(pc \in CleanupPcs)
             => /\ pc' \in CleanupPcs
                /\ cleanupEntries' = cleanupEntries
                /\ UNCHANGED <<running, snap, telemetry, staged_walkers, walkers,
                               walker_controllers, spawned>>]_vars

\* a tick cut short by a KeyboardInterrupt after its snapshot, with a walker
\* staged, and the cleanup run to its end
C13_Witness ==
    /\ pc = "done"
    /\ endedBy = "interrupt"
    /\ cleanupEntries = 1
    /\ running
    /\ snap # None
    /\ staged_walkers # <<>>

\* C14 as claimed: no error raised inside a sensor callback (the two camera
\* callbacks, the collision callback) leaves the callback: every one of them is
\* caught and logged inside it.
C14_NoErrorEscapes == escapedErrors = 0

\* C15 as claimed: every tick that obtains a snapshot, passes the watchdog
\* check and reads the ego state appends exactly one record, so after k such
\* ticks the ring holds min(k, capacity) records.
C15_OneRecordPerTick ==
    Len(telemetry) = IF appendCalls < MAX_TELEMETRY_ROWS THEN appendCalls
                     ELSE MAX_TELEMETRY_ROWS

\* C16: on the tick where the watchdog check finds the last frame older than
\* the threshold, the loop is left for the first cleanup step at once: that
\* step appends no telemetry, stages and triggers no walker, creates and
\* destroys no actor; and from then on the control thread stays in cleanup,
\* takes no further snapshot, makes no further watchdog report, and leaves the
\* telemetry ring and the staged and triggered lists as they were.
C16_StallExitsAtOnce ==
    /\ [][(pc = "watchdog" /\ now - last_frame_time > NO_FRAME_TIMEOUT /\ pc' # pc)
             => /\ pc' = "flush"
                /\ endedBy' = "stall"
                /\ UNCHANGED <<snap, telemetry, staged_walkers, walkers,
                               walker_controllers, spawned, alive>>]_vars
    /\ [][(endedBy = "stall")
             => /\ pc \in CleanupPcs
                /\ pc' \in CleanupPcs
                /\ UNCHANGED <<snap, telemetry, staged_walkers, walkers,
                               walker_controllers, spawned, stallReports,
                               endedBy>>]_vars
    /\ []((endedBy = "stall") <=> (stallReports = 1))

\* the stall was found on a tick whose frame id called for staging, with one
\* walker waiting for its trigger: nothing was staged or triggered, and the
\* cleanup has run to its end
C16_Witness ==
    /\ pc = "done"
    /\ endedBy = "stall"
    /\ snap = 200
    /\ Len(staged_walkers) = 1
    /\ walkers = <<>>
    /\ spawned = 1

\* C17: when the snapshot poll raises or yields no snapshot, the tick is
\* skipped and is not fatal: the control thread is back at the head of the
\* loop, cleanup is not entered, no telemetry record is appended, no walker is
\* staged or triggered, no actor is created or destroyed, the staged and
\* triggered lists are unchanged; a tick goes past the poll only with a
\* snapshot; and the next tick can start as long as no quit was requested.
C17_MissingSnapshotSkipsTick ==
    /\ [][(/\ pc = "loop" /\ running
            /\ snap' = None
            /\ <<running, snap>>' # <<running, snap>>)
             => /\ pc' = "loop"
                /\ endedBy' = "none"
                /\ cleanupEntries' = 0
                /\ UNCHANGED <<telemetry, staged_walkers, walkers,
                               walker_controllers, spawned, alive, stallReports>>]_vars
    /\ []((pc \in LoopPcs \ {"loop"}) => snap # None)
    /\ []((pc = "loop" /\ running /\ snap = None) => ENABLED LoopIter)

\* a tick was skipped for want of a snapshot while a walker was waiting for its
\* trigger
C17_Witness ==
    /\ pc = "loop"
    /\ running
    /\ snap = None
    /\ Len(staged_walkers) = 1
    /\ endedBy = "none"

\* C18 as claimed: every tick that has obtained a snapshot and passed the
\* watchdog check runs its remaining steps in order, none skipped: telemetry
\* block, staging, trigger loop, render and pacing, then the next tick; also
\* on a tick whose staging attempt fails.
C18_TickStepsInOrder ==
    /\ [][(pc = "watchdog" /\ pc' \in LoopPcs \ {"watchdog"})
             => pc' = "telemetry"]_vars
    /\ [][(pc = "telemetry" /\ pc' # pc) => pc' = "stage"]_vars
    /\ [][(pc = "stage" /\ pc' # pc) => pc' = "trigger"]_vars
    /\ [][(pc = "trigger" /\ pc' # pc) => pc' = "render"]_vars
    /\ [][(pc = "render" /\ pc' # pc) => pc' = "loop"]_vars

\* C19: a walker is spawned or staged only by the staging step of a tick, only
\* when --no-walkers was not given, the frame id f of the tick's snapshot has
\* f > 40 and f mod 200 = 0, and staged plus triggered walkers number fewer
\* than MAX_CROSSERS; that step spawns one walker and stages at most one; and
\* with --no-walkers no walker ever exists.
C19_StagingConditions ==
    /\ [][(Len(staged_walkers') > Len(staged_walkers) \/ spawned' # spawned)
             => /\ pc = "stage"
                /\ ~no_walkers
                /\ snap > 40
                /\ snap % 200 = 0
                /\ Len(staged_walkers) + Len(walkers) < MAX_CROSSERS
                /\ spawned' = spawned + 1
                /\ Len(staged_walkers') <= Len(staged_walkers) + 1]_vars
    /\ [](no_walkers => (spawned = 0 /\ staged_walkers = <<>> /\ walkers = <<>>))
    /\ []((lastStage # "none") => ~no_walkers)

\* a second walker has just been staged, on frame 200, beside one still waiting
C19_Witness ==
    /\ pc = "trigger"
    /\ lastStage = "staged"
    /\ snap = 200
    /\ Len(staged_walkers) = 2
    /\ walkers = <<>>

\* the outcomes of a staging attempt that could not resolve a point: no
\* waypoint ahead (339), no projected spawn waypoint (355), no walker (360)
Unresolved == {"no_future", "no_spawn_wp", "no_walker"}

\* C20: a staging attempt that cannot resolve a point (no waypoint ahead of the
\* ego, no projected spawn waypoint, or the spawn returning nothing) creates
\* no walker and no controller, leaves the staged and triggered lists and the
\* world unchanged, and the tick goes on to the trigger loop, the loop not
\* ended; and at a later tick whose staging condition holds, a staging attempt
\* can again succeed.
C20_UnresolvedPointNoResources ==
    /\ [][(/\ pc = "stage" /\ pc' # pc
            /\ StageDue(no_walkers, snap, Len(walkers), Len(staged_walkers))
            /\ lastStage' \in Unresolved)
             => /\ pc' = "trigger"
                /\ endedBy' = "none"
                /\ UNCHANGED <<alive, spawned, staged_walkers, walkers,
                               walker_controllers, attachFailed, running>>]_vars
    /\ []((/\ pc = "stage"
            /\ lastStage \in Unresolved
            /\ StageDue(no_walkers, snap, Len(walkers), Len(staged_walkers))
            /\ spawned < MaxSpawns)
             => ENABLED stage_attempt("staged", TRUE))

\* the latest attempt found no walker, nothing was ever spawned, and the
\* staging condition holds again at a later tick
C20_Witness ==
    /\ pc = "stage"
    /\ lastStage = "no_walker"
    /\ spawned = 0
    /\ alive = Range(sensors) \cup Range(vehicles)
    /\ StageDue(no_walkers, snap, Len(walkers), Len(staged_walkers))

C22_LaterTasksWritten == (wpc = "exit" /\ writeFailures > 0) => save_queue = <<>>

\* ---------------- C23 ----------------
\* C23 as claimed: _last_frame_time never decreases, whatever the interleaving
\* of the two camera callbacks, each reading the clock and then assigning the
\* value read, and of the control loop.
C23_TimestampNeverDecreases == [][last_frame_time' >= last_frame_time]_vars

\* ---------------- C24 ----------------
\* C24 as claimed, for the walkers still in staged_walkers (staged, not yet
\* triggered) when the loop ended: when cleanup has completed, each of them
\* and its controller is gone from the world or was among the actors the
\* cleanup asked the simulator to destroy.
C24_StagedActorsCleanedUp ==
    (pc = "done") =>
        \A k \in Range(staged_walkers) : \A a \in {Walker(k), Ctrl(k)} :
            a \notin alive \/ a \in destroyAttempted

\* ---------------- C25 ----------------
\* C25 as claimed: no walker controller is left alive and untracked: every
\* controller alive in the world belongs to a walker that is still in
\* staged_walkers or is in walker_controllers, also after the evaluation of
\* its walker's trigger raised.
C25_NoUntrackedController ==
    \A k \in 1..spawned :
        Ctrl(k) \in alive =>
            k \in Range(staged_walkers) \cup Range(walker_controllers)

\* ---------------- C26 ----------------
\* C26: walkers (the triggered walkers) only grows: every step keeps it as a
\* prefix of its new value; it never holds more than MAX_CROSSERS walkers;
\* and once it holds MAX_CROSSERS no walker is spawned or staged any more.
C26_TriggeredOnlyGrow ==
    /\ [][/\ Len(walkers') >= Len(walkers)
          /\ SubSeq(walkers', 1, Len(walkers)) = walkers
          /\ SubSeq(walker_controllers', 1, Len(walker_controllers))
                 = walker_controllers]_vars
    /\ [](Len(walkers) <= MAX_CROSSERS)
    /\ [][(Len(walkers) >= MAX_CROSSERS) =>
            /\ spawned' = spawned
            /\ staged_walkers' = staged_walkers
            /\ staged_walkers = <<>>]_vars

\* MAX_CROSSERS walkers have been triggered and a tick whose frame id is a
\* multiple of 200 above 40 has gone past the staging step without staging
C26_Witness ==
    /\ Len(walkers) = MAX_CROSSERS
    /\ pc = "trigger"
    /\ snap > 40
    /\ snap % 200 = 0
    /\ ~no_walkers
    /\ spawned = MAX_CROSSERS

\* ---------------- C27 ----------------
\* C27 as claimed: at most one walker is staged per simulation frame id: when
\* the previous tick that reached the staging step staged a walker at frame
\* id f, a tick whose snapshot carries the same frame id f stages none.
C27_OneStagingPerFrame ==
    [][(pc = "stage" /\ stagedAt # None /\ snap = stagedAt) =>
            Len(staged_walkers') <= Len(staged_walkers)]_vars

\* ---------------- C28 ----------------
\* C28: once a QUIT/ESC event has set running to False, running stays False,
\* no further snapshot is polled and no further tick passes the while test
\* (the control thread, back at the while test, goes to the finally block),
\* and the control thread does reach the cleanup, also when the snapshot poll
\* of the tick that saw the event yielded nothing.
C28_QuitLeadsToCleanup ==
    /\ [][(~running) =>
            /\ ~running'
            /\ snap' = snap
            /\ (pc = "loop" /\ pc' # pc) => pc' = "flush"]_vars
    /\ (~running) ~> (pc \in CleanupPcs)
    /\ (~running /\ snap = None) ~> (pc = "done")

\* the quit event came on a tick without a snapshot, and cleanup has completed
C28_Witness ==
    /\ ~running
    /\ snap = None
    /\ endedBy = "quit"
    /\ pc = "done"

====
